---------------------------- MODULE Spec2Model ----------------------------
(***************************************************************************)
(* Model of simples-financas.py: the normalisation done by load_data and   *)
(* the aggregations kpi_cards, monthly_charts, category_chart,             *)
(* payment_chart and top_people_chart that main() runs on its result.      *)
(*                                                                         *)
(* Text is a sequence of one-character strings, so that str.replace,       *)
(* str.strip, str.lower and the numeric / date parsers are computed        *)
(* character by character, as the library calls compute them.              *)
(* A cell of the sheet is a record: [kind |-> "str", s |-> text], or, when *)
(* the spreadsheet client has numericised it, [kind |-> "int", v |-> n] or *)
(* [kind |-> "float", m |-> m, e |-> e] (the number m / 10^e).             *)
(* A parsed amount is [isna |-> FALSE, m, e] (m / 10^e, normalised) or     *)
(* NaN; a parsed date is [isna |-> FALSE, y, m, d] or NaT.                 *)
(*                                                                         *)
(* SpecLoad runs load_data on bounded raw records, SpecParse the amount    *)
(* parser on one cell, SpecAgg the aggregations of main() on bounded       *)
(* ledgers, SpecTop top_people_chart on ledgers of up to MaxPeople         *)
(* counterparties.                                                         *)
(***************************************************************************)
EXTENDS Integers, Sequences, FiniteSets, TLC

VARIABLES records,   \* the raw records handed to load_data (ws.get_all_records())
          records0,  \* the raw records as first fetched (history)
          returned,  \* what each call of load_data so far returned or raised
          cell,      \* one cell of the "Valor (R$)" column, as the client delivers it
          amount,    \* the amount that cell stands for, in hundredths (history)
          parsed,    \* what the amount parser made of cell
          df,        \* the ledger main() hands to the aggregations
          pc,        \* the position of the run
          out        \* what the aggregations computed / reported / raised

vars == <<records, records0, returned, cell, amount, parsed, df, pc, out>>

---------------------------------------------------------------------------
(* Bounds of the model *)

MaxRows == 2
MaxCalls == 2
MaxIntDigits == 5
MaxAggRows == 2
MaxExtra == 2
MaxExtraPeople == 3
MaxPeople == 16

(* Program constant: .head(15) *)
TopN == 15

---------------------------------------------------------------------------
(* Text helpers *)

Str(s) == [kind |-> "str", s |-> s]

DigitChars == <<"0", "1", "2", "3", "4", "5", "6", "7", "8", "9">>

IsDigit(c) == \E i \in 1..10 : DigitChars[i] = c

DigitVal(c) == (CHOOSE i \in 1..10 : DigitChars[i] = c) - 1

RECURSIVE Pow10(_)
Pow10(n) == IF n = 0 THEN 1 ELSE 10 * Pow10(n - 1)

RECURSIVE DigitsToNat(_)
DigitsToNat(s) ==
    IF s = <<>> THEN 0
    ELSE 10 * DigitsToNat(SubSeq(s, 1, Len(s) - 1)) + DigitVal(s[Len(s)])

RECURSIVE NatToDigits(_)
NatToDigits(n) ==
    IF n < 10 THEN <<DigitChars[n + 1]>>
    ELSE Append(NatToDigits(n \div 10), DigitChars[(n % 10) + 1])

RECURSIVE PadLeft(_, _)
PadLeft(s, w) == IF Len(s) >= w THEN s ELSE PadLeft(<<"0">> \o s, w)

(* str(x) of a Python int or float, as Series.astype(str) applies it *)
astype_str(c) ==
    CASE c.kind = "str" -> c.s
      [] c.kind = "int" -> NatToDigits(c.v)
      [] c.kind = "float" ->
            NatToDigits(c.m \div Pow10(c.e)) \o <<".">> \o
            (IF c.e = 0 THEN <<"0">>
             ELSE PadLeft(NatToDigits(c.m % Pow10(c.e)), c.e))

(* Series.str.replace(old, new, regex=False), old a single character *)
str_replace(s, old, new) ==
    IF new = ""
    THEN SelectSeq(s, LAMBDA ch : ch # old)
    ELSE [i \in 1..Len(s) |-> IF s[i] = old THEN new ELSE s[i]]

IsSpace(c) == c \in {" ", "\t", "\n"}

RECURSIVE str_strip(_)
str_strip(s) ==
    IF s = <<>> THEN s
    ELSE IF IsSpace(s[1]) THEN str_strip(Tail(s))
    ELSE IF IsSpace(s[Len(s)]) THEN str_strip(SubSeq(s, 1, Len(s) - 1))
    ELSE s

UpperChars == <<"R", "E", "C", "I", "T", "A", "D", "S", "P", "O", "U">>
LowerChars == <<"r", "e", "c", "i", "t", "a", "d", "s", "p", "o", "u">>

LowerChar(c) ==
    IF \E i \in 1..Len(UpperChars) : UpperChars[i] = c
    THEN LowerChars[CHOOSE i \in 1..Len(UpperChars) : UpperChars[i] = c]
    ELSE c

(* A comparison that keeps the case of the text *)
str_keep_case(s) == s

(* Series.str.lower() *)
str_lower(s) == [i \in 1..Len(s) |-> LowerChar(s[i])]

---------------------------------------------------------------------------
(* Numbers and dates *)

NaN == [isna |-> TRUE]
NaT == [isna |-> TRUE]

RECURSIVE Normalise(_, _)
Normalise(m, e) ==
    IF e > 0 /\ m % 10 = 0 THEN Normalise(m \div 10, e - 1)
    ELSE [isna |-> FALSE, m |-> m, e |-> e]

(* pd.to_numeric(text, errors="coerce") on text made of digits and '.':     *)
(* digits with at most one '.', at least one digit; anything else is NaN.   *)
to_numeric(s) ==
    LET dots == SelectSeq(s, LAMBDA ch : ch = ".")
        digs == SelectSeq(s, LAMBDA ch : IsDigit(ch))
        p    == IF dots = <<>> THEN Len(s) + 1
                ELSE CHOOSE i \in 1..Len(s) : s[i] = "."
    IN  IF digs = <<>> \/ Len(dots) > 1 \/ Len(digs) + Len(dots) # Len(s)
        THEN NaN
        ELSE Normalise(DigitsToNat(digs), IF dots = <<>> THEN 0 ELSE Len(s) - p)

IsLeap(y) == (y % 4 = 0 /\ y % 100 # 0) \/ y % 400 = 0

DaysIn(y, m) ==
    IF m = 2 THEN (IF IsLeap(y) THEN 29 ELSE 28)
    ELSE IF m \in {4, 6, 9, 11} THEN 30 ELSE 31

(* pd.to_datetime(cell, errors="coerce") on a text cell: "YYYY-MM-DD" with  *)
(* a real month and day is that date; the empty cell and any other text of  *)
(* the inputs used here is NaT.                                             *)
to_datetime(c) ==
    LET s == c.s
    IN  IF /\ Len(s) = 10
           /\ s[5] = "-" /\ s[8] = "-"
           /\ \A i \in {1, 2, 3, 4, 6, 7, 9, 10} : IsDigit(s[i])
        THEN LET y == DigitsToNat(SubSeq(s, 1, 4))
                 m == DigitsToNat(SubSeq(s, 6, 7))
                 d == DigitsToNat(SubSeq(s, 9, 10))
             IN  IF m \in 1..12 /\ d >= 1 /\ d <= DaysIn(y, m)
                 THEN [isna |-> FALSE, y |-> y, m |-> m, d |-> d]
                 ELSE NaT
        ELSE NaT

---------------------------------------------------------------------------
(* load_data.  The sheet's labels are written without their diacritics.     *)

colmap ==
    [k \in {"Timestamp", "Tipo de lancamento", "Categoria", "Data do lancamento",
            "Valor (R$)", "Forma de pagamento",
            "De quem recebeu / Para quem pagou (lista)",
            "Outro nome (digite manualmente)", "Observacoes"} |->
        CASE k = "Timestamp" -> "timestamp"
          [] k = "Tipo de lancamento" -> "tipo"
          [] k = "Categoria" -> "categoria"
          [] k = "Data do lancamento" -> "data"
          [] k = "Valor (R$)" -> "valor"
          [] k = "Forma de pagamento" -> "forma_pagamento"
          [] k = "De quem recebeu / Para quem pagou (lista)" -> "pessoa_lista"
          [] k = "Outro nome (digite manualmente)" -> "pessoa_texto"
          [] k = "Observacoes" -> "observacoes"]

(* pd.DataFrame(records): the columns are the keys of the records (none for *)
(* an empty list), the index is 0, 1, ...                                   *)
DataFrame(recs) ==
    [cols |-> IF recs = <<>> THEN {} ELSE DOMAIN recs[1],
     rows |-> [i \in 1..Len(recs) |-> [idx |-> i - 1, v |-> recs[i]]]]

(* df.rename(columns={k: v for k, v in colmap.items() if k in df.columns}) *)
rename(d) ==
    LET to(k) == IF k \in DOMAIN colmap THEN colmap[k] ELSE k
        from(c) == CHOOSE k \in d.cols : to(k) = c
        newcols == {to(k) : k \in d.cols}
    IN  [cols |-> newcols,
         rows |-> [i \in 1..Len(d.rows) |->
                     [idx |-> d.rows[i].idx,
                      v |-> [c \in newcols |-> d.rows[i].v[from(c)]]]]]

(* df[name] = values: the column is added or overwritten, row by row *)
SetCol(d, name, values) ==
    [cols |-> d.cols \cup {name},
     rows |-> [i \in 1..Len(d.rows) |->
                 [idx |-> d.rows[i].idx,
                  v |-> [c \in d.cols \cup {name} |->
                           IF c = name THEN values[i] ELSE d.rows[i].v[c]]]]]

(* mask_vazio = df["pessoa_final"].astype(str).str.strip() == "" *)
mask_vazio(r) == str_strip(astype_str(r["pessoa_texto"])) = <<>>

(* lines 41-45, with "pessoa_texto" among the columns *)
pessoa_final(d) ==
    SetCol(d, "pessoa_final",
           [i \in 1..Len(d.rows) |->
               IF mask_vazio(d.rows[i].v) /\ "pessoa_lista" \in d.cols
               THEN d.rows[i].v["pessoa_lista"]
               ELSE d.rows[i].v["pessoa_texto"]])

(* lines 49-55 on one cell *)
valor_numerico(c) ==
    to_numeric(str_replace(str_replace(astype_str(c), ".", ""), ",", "."))

(* A date source that falls back to the timestamp row by row *)
data_source_per_row(d, r) ==
    IF "data" \in d.cols /\ ("timestamp" \notin d.cols \/ ~to_datetime(r["data"]).isna)
    THEN r["data"]
    ELSE r["timestamp"]

(* lines 59-62: which column the dates are read from, per row *)
data_source(d, r) ==
    IF "data" \in d.cols THEN r["data"] ELSE r["timestamp"]

(* A dropna that drops a row only when both fields are missing (how="all") *)
dropna_how_all(d) ==
    [cols |-> d.cols,
     rows |-> SelectSeq(d.rows, LAMBDA row : ~row.v["valor"].isna \/ ~row.v["data"].isna)]

(* df.dropna(subset=["valor", "data"]) *)
dropna(d) ==
    [cols |-> d.cols,
     rows |-> SelectSeq(d.rows, LAMBDA row : ~row.v["valor"].isna /\ ~row.v["data"].isna)]

EmptyDf == [cols |-> {}, rows |-> <<>>]

Returned(d) == [kind |-> "ok", exc |-> "", df |-> d]
Raised(e) == [kind |-> "raised", exc |-> e, df |-> EmptyDf]

load_data(recs) ==
    LET d0 == rename(DataFrame(recs))
    IN  IF "pessoa_lista" \in d0.cols /\ "pessoa_texto" \notin d0.cols
        THEN Raised("AttributeError")  \* "".fillna: df.get returned the default
        ELSE
        LET d1 == IF "pessoa_texto" \in d0.cols THEN pessoa_final(d0) ELSE d0
            d2 == IF "valor" \in d1.cols
                  THEN SetCol(d1, "valor", [i \in 1..Len(d1.rows) |->
                                               valor_numerico(d1.rows[i].v["valor"])])
                  ELSE d1
            d3 == IF "data" \in d2.cols \/ "timestamp" \in d2.cols
                  THEN SetCol(d2, "data", [i \in 1..Len(d2.rows) |->
                                              to_datetime(data_source(d2, d2.rows[i].v))])
                  ELSE d2
        IN  IF {"valor", "data"} \subseteq d3.cols
            THEN Returned(dropna(d3))
            ELSE Raised("KeyError")

(* A load_data that writes the parsed amounts back into the caller's records *)
records_written_back(recs) ==
    [i \in 1..Len(recs) |->
        [k \in DOMAIN recs[i] |->
            IF k = "Valor (R$)" /\ ~valor_numerico(recs[i][k]).isna
            THEN [kind |-> "float", m |-> valor_numerico(recs[i][k]).m,
                                   e |-> valor_numerico(recs[i][k]).e]
            ELSE recs[i][k]]]

(* load_data builds its frame from a copy of the records: the caller's      *)
(* records are what they were.                                              *)
records_after_load(recs) == recs

---------------------------------------------------------------------------
(* Arithmetic and ordering the aggregations use *)

Zero == [isna |-> FALSE, m |-> 0, e |-> 0]

MaxOf(a, b) == IF a >= b THEN a ELSE b

Scaled(x, e) == x.m * Pow10(e - x.e)

NumAdd(a, b) == Normalise(Scaled(a, MaxOf(a.e, b.e)) + Scaled(b, MaxOf(a.e, b.e)), MaxOf(a.e, b.e))

NumSub(a, b) == Normalise(Scaled(a, MaxOf(a.e, b.e)) - Scaled(b, MaxOf(a.e, b.e)), MaxOf(a.e, b.e))

NumLt(a, b) == Scaled(a, MaxOf(a.e, b.e)) < Scaled(b, MaxOf(a.e, b.e))

(* Series.sum() *)
RECURSIVE sum(_)
sum(s) == IF s = <<>> THEN Zero ELSE NumAdd(s[1], sum(Tail(s)))

(* The characters of the model's texts, in code point order *)
Alphabet ==
    <<" ", "-", "/", "0", "1", "2", "3", "4", "5", "6", "7", "8", "9",
      "A", "B", "C", "D", "E", "I", "J", "M", "O", "P", "R", "S", "T", "U",
      "a", "b", "c", "d", "e", "i", "l", "n", "o", "p", "r", "s", "t", "u", "x", "z">>

Ord(c) == CHOOSE i \in 1..Len(Alphabet) : Alphabet[i] = c

(* Python's < on str *)
RECURSIVE TextLt(_, _)
TextLt(a, b) ==
    IF b = <<>> THEN FALSE
    ELSE IF a = <<>> THEN TRUE
    ELSE IF a[1] = b[1] THEN TextLt(Tail(a), Tail(b))
    ELSE Ord(a[1]) < Ord(b[1])

(* The key cells of a groupby, in sorted order (groupby sorts its keys) *)
RECURSIVE SortedKeys(_)
SortedKeys(S) ==
    IF S = {} THEN <<>>
    ELSE LET k == CHOOSE x \in S : \A y \in S \ {x} : TextLt(x.s, y.s)
         IN  <<k>> \o SortedKeys(S \ {k})

Column(rows, c) == [i \in 1..Len(rows) |-> rows[i].v[c]]

(* df.groupby(key)["valor"].sum().reset_index() *)
groupby_sum(rows, key) ==
    LET keys == SortedKeys({rows[i].v[key] : i \in 1..Len(rows)})
    IN  [g \in 1..Len(keys) |->
            [key |-> keys[g],
             valor |-> sum(Column(SelectSeq(rows, LAMBDA r : r.v[key] = keys[g]), "valor"))]]

T_receita == <<"r", "e", "c", "e", "i", "t", "a">>
T_despesa == <<"d", "e", "s", "p", "e", "s", "a">>

(* df[df["tipo"].str.lower() == word] *)
of_tipo(rows, word) == SelectSeq(rows, LAMBDA r : str_lower(r.v["tipo"].s) = word)

---------------------------------------------------------------------------
(* kpi_cards *)

kpi_cards(d) ==
    LET receitas == IF "tipo" \in d.cols
                    THEN sum(Column(of_tipo(d.rows, T_receita), "valor")) ELSE Zero
        despesas == IF "tipo" \in d.cols
                    THEN sum(Column(of_tipo(d.rows, T_despesa), "valor")) ELSE Zero
    IN  [receitas |-> receitas, despesas |-> despesas, saldo |-> NumSub(receitas, despesas)]

---------------------------------------------------------------------------
(* monthly_charts *)

(* df["data"].dt.to_period("M").astype(str): "YYYY-MM" *)
ano_mes(date) ==
    Str(PadLeft(NatToDigits(date.y), 4) \o <<"-">> \o PadLeft(NatToDigits(date.m), 2))

Lookup(table, k) ==
    IF \E i \in 1..Len(table) : table[i].key = k
    THEN table[CHOOSE i \in 1..Len(table) : table[i].key = k].valor
    ELSE NaN

fillna0(x) == IF x.isna THEN Zero ELSE x

(* A merge that keeps only the months both sides have (how="inner") *)
merge_inner(l, r) ==
    LET keys == SortedKeys({l[i].key : i \in 1..Len(l)} \cap {r[i].key : i \in 1..Len(r)})
    IN  [g \in 1..Len(keys) |->
            [ano_mes |-> keys[g],
             valor_rec |-> Lookup(l, keys[g]),
             valor_des |-> Lookup(r, keys[g])]]

(* receitas_m.merge(despesas_m, on="ano_mes", how="outer", suffixes=("_rec", "_des")) *)
merge_outer(l, r) ==
    LET keys == SortedKeys({l[i].key : i \in 1..Len(l)} \cup {r[i].key : i \in 1..Len(r)})
    IN  [g \in 1..Len(keys) |->
            [ano_mes |-> keys[g],
             valor_rec |-> Lookup(l, keys[g]),
             valor_des |-> Lookup(r, keys[g])]]

(* lines 83-87: the frame with its new column, and saldo_m *)
monthly_charts(d) ==
    LET d1 == SetCol(d, "ano_mes", [i \in 1..Len(d.rows) |-> ano_mes(d.rows[i].v["data"])])
        receitas_m == groupby_sum(of_tipo(d1.rows, T_receita), "ano_mes")
        despesas_m == groupby_sum(of_tipo(d1.rows, T_despesa), "ano_mes")
        merged == merge_outer(receitas_m, despesas_m)
    IN  [df |-> d1,
         saldo_m |-> [g \in 1..Len(merged) |->
                        [ano_mes |-> merged[g].ano_mes,
                         valor_rec |-> fillna0(merged[g].valor_rec),
                         valor_des |-> fillna0(merged[g].valor_des),
                         saldo |-> NumSub(fillna0(merged[g].valor_rec),
                                          fillna0(merged[g].valor_des))]]]

---------------------------------------------------------------------------
(* top_people_chart *)

RECURSIVE Perms(_)
Perms(S) ==
    IF S = {} THEN {<<>>}
    ELSE UNION {{<<x>> \o q : q \in Perms(S \ {x})} : x \in S}

(* .sort_values("valor", ascending=False): the default sort (quicksort) is  *)
(* not stable, so rows with equal valor may come out in any order.          *)
RECURSIVE DescendingOrders(_)
DescendingOrders(S) ==
    IF S = {} THEN {<<>>}
    ELSE LET top == {x \in S : \A y \in S : ~NumLt(x.valor, y.valor)}
         IN  {q \o rest : q \in Perms(top), rest \in DescendingOrders(S \ top)}

sort_values_desc(table) == DescendingOrders({table[i] : i \in 1..Len(table)})

(* A head that keeps one row too many *)
head_one_more(s, n) == SubSeq(s, 1, IF Len(s) < n + 1 THEN Len(s) ELSE n + 1)

(* .head(n) *)
head(s, n) == SubSeq(s, 1, IF Len(s) < n THEN Len(s) ELSE n)

(* lines 135-141: every table the sort may produce *)
top_people(d) ==
    {head(s, TopN) : s \in sort_values_desc(groupby_sum(d.rows, "pessoa_final"))}

---------------------------------------------------------------------------
(* The raw records load_data is run on *)

T_Empty == <<>>
T_Blank == <<" ", " ">>
T_Joao == <<"J", "o", "a", "o">>
T_Maria == <<"M", "a", "r", "i", "a">>
T_Junk == <<"n", "/", "a">>
T_Jan15 == <<"2", "0", "2", "4", "-", "0", "1", "-", "1", "5">>
T_Feb03 == <<"2", "0", "2", "4", "-", "0", "2", "-", "0", "3">>
T_1234_56 == <<"1", ".", "2", "3", "4", ",", "5", "6">>

L_Timestamp == "Timestamp"
L_Data == "Data do lancamento"
L_Valor == "Valor (R$)"
L_Lista == "De quem recebeu / Para quem pagou (lista)"
L_Texto == "Outro nome (digite manualmente)"

LoadLabels == {L_Timestamp, L_Data, L_Valor, L_Lista, L_Texto}

CellsOf(label) ==
    CASE label = L_Timestamp -> {Str(T_Jan15), Str(T_Empty)}
      [] label = L_Data -> {Str(T_Feb03), Str(T_Junk)}
      [] label = L_Valor -> {Str(T_1234_56), Str(T_Junk), [kind |-> "float", m |-> 125, e |-> 1]}
      [] label = L_Lista -> {Str(T_Maria)}
      [] label = L_Texto -> {Str(T_Joao), Str(T_Blank), Str(T_Empty)}

(* Every record with exactly the keys `keys`, each cell one its column can hold *)
RECURSIVE RecordsOver(_)
RecordsOver(keys) ==
    IF keys = {} THEN {<<>>}
    ELSE LET k == CHOOSE x \in keys : TRUE
         IN  {(k :> c) @@ f : c \in CellsOf(k), f \in RecordsOver(keys \ {k})}

(* get_all_records(): every record of one fetch has the same keys *)
RawInputs ==
    UNION {[1..n -> RecordsOver(keys)] : n \in 0..MaxRows, keys \in SUBSET LoadLabels}

NoCell == Str(T_Empty)
NoKpi == [receitas |-> NaN, despesas |-> NaN, saldo |-> NaN]
Idle == [kpi |-> NoKpi, saldo_m |-> <<>>, despesas_cat |-> <<>>, por_forma |-> <<>>,
         top |-> <<>>, info |-> {}, exc |-> ""]

InitLoad ==
    /\ records \in RawInputs
    /\ records0 = records
    /\ returned = <<>>
    /\ cell = NoCell
    /\ amount = 0
    /\ parsed = NaN
    /\ df = EmptyDf
    /\ pc = "idle"
    /\ out = Idle

(* One call of load_data on the records *)
LoadData ==
    /\ Len(returned) < MaxCalls
    /\ returned' = Append(returned, load_data(records))
    /\ records' = records_after_load(records)
    /\ UNCHANGED <<records0, cell, amount, parsed, df, pc, out>>

NextLoad == LoadData

SpecLoad == InitLoad /\ [][NextLoad]_vars

---------------------------------------------------------------------------
(* The amount parser on one cell (SpecParse) *)

AmountDigits == {"0", "1", "9"}

(* Digit groups of three from the right, separated by '.' *)
RECURSIVE Grouped(_)
Grouped(s) ==
    IF Len(s) <= 3 THEN s
    ELSE Grouped(SubSeq(s, 1, Len(s) - 3)) \o <<".">> \o SubSeq(s, Len(s) - 2, Len(s))

(* The cells of an amount column: text "<groups separated by '.'>,<two      *)
(* digits>", the same without thousands separators, and the numbers the     *)
(* client's numericising delivers. Each with the amount it stands for.      *)
AmountInputs ==
    LET ints == UNION {[1..n -> AmountDigits] : n \in 1..MaxIntDigits}
        fracs == [1..2 -> AmountDigits]
        text(g, i, f) == [c |-> Str(g \o <<",">> \o f),
                          a |-> 100 * DigitsToNat(i) + DigitsToNat(f)]
        texts == UNION {{text(Grouped(i), i, f), text(i, i, f)} : i \in ints, f \in fracs}
        whole == {[c |-> [kind |-> "int", v |-> v], a |-> 100 * v] : v \in {0, 56, 1234}}
        float == {[c |-> [kind |-> "float", m |-> x[1], e |-> x[2]],
                   a |-> x[1] * Pow10(2 - x[2])] :
                     x \in {<<125, 1>>, <<123456, 2>>, <<56, 0>>, <<5, 2>>}}
    IN  texts \cup whole \cup float

InitParse ==
    /\ \E i \in AmountInputs : cell = i.c /\ amount = i.a
    /\ parsed = NaN
    /\ pc = "cell"
    /\ records = <<>>
    /\ records0 = <<>>
    /\ returned = <<>>
    /\ df = EmptyDf
    /\ out = Idle

(* lines 49-55 applied to the cell *)
ParseValor ==
    /\ pc = "cell"
    /\ parsed' = valor_numerico(cell)
    /\ pc' = "parsed"
    /\ UNCHANGED <<records, records0, returned, cell, amount, df, out>>

NextParse == ParseValor

SpecParse == InitParse /\ [][NextParse]_vars

(* C3: the parser returns the amount the cell stands for, for text of the   *)
(* form "<groups>,<two digits>" and for a cell delivered as a number.       *)
C3_ParsedIsAmount ==
    pc = "parsed" => parsed = Normalise(amount, 2)

(* C3, the part the code does satisfy: text cells and whole-number cells    *)
C3_TextAmounts ==
    (pc = "parsed" /\ cell.kind \in {"str", "int"}) => parsed = Normalise(amount, 2)

---------------------------------------------------------------------------
(* main(): the aggregations, in order, on a ledger load_data returned       *)
(* (SpecAgg). An exception ends the run.                                     *)

T_Receita == <<"R", "e", "c", "e", "i", "t", "a">>
T_RECEITA == <<"R", "E", "C", "E", "I", "T", "A">>
T_DESPESA == <<"D", "E", "S", "P", "E", "S", "A">>
T_outro == <<"o", "u", "t", "r", "o">>
T_casa == <<"c", "a", "s", "a">>
T_lazer == <<"l", "a", "z", "e", "r">>
T_pix == <<"p", "i", "x">>
T_cartao == <<"c", "a", "r", "t", "a", "o">>
T_Ana == <<"A", "n", "a">>
T_Bia == <<"B", "i", "a">>

Date(y, m, d) == [isna |-> FALSE, y |-> y, m |-> m, d |-> d]

(* The rows of the ledgers: income in three spellings, expense in upper     *)
(* case, another entry type; two months across a year end; two amounts      *)
(* (100.50 and 20), each with its labels.                                   *)
AggRows ==
    {[tipo |-> Str(tp), data |-> dt, valor |-> pf[1], categoria |-> Str(pf[2]),
      forma_pagamento |-> Str(pf[3]), pessoa_final |-> Str(pf[4])] :
        tp \in {T_receita, T_Receita, T_RECEITA, T_DESPESA, T_outro},
        dt \in {Date(2023, 12, 31), Date(2024, 1, 15)},
        pf \in {<<Normalise(10050, 2), T_casa, T_pix, T_Ana>>,
                <<Normalise(20, 0), T_lazer, T_cartao, T_Bia>>}}

OptionalCols == {"tipo", "categoria", "forma_pagamento", "pessoa_final"}

(* A ledger as load_data returns it: valor and data present in every row *)
Ledger(cols, rs) ==
    [cols |-> cols,
     rows |-> [i \in 1..Len(rs) |-> [idx |-> i - 1, v |-> [c \in cols |-> rs[i][c]]]]]

InitAgg ==
    /\ \E opt \in SUBSET OptionalCols, n \in 0..MaxAggRows :
          \E rs \in [1..n -> AggRows] : df = Ledger({"valor", "data"} \cup opt, rs)
    /\ pc = "kpi_cards"
    /\ out = Idle
    /\ records = <<>>
    /\ records0 = <<>>
    /\ returned = <<>>
    /\ cell = NoCell
    /\ amount = 0
    /\ parsed = NaN

KpiCards ==
    /\ pc = "kpi_cards"
    /\ out' = [out EXCEPT !.kpi = kpi_cards(df)]
    /\ pc' = "monthly_charts"
    /\ UNCHANGED <<records, records0, returned, cell, amount, parsed, df>>

MonthlyCharts ==
    /\ pc = "monthly_charts"
    /\ IF "tipo" \notin df.cols
       THEN /\ out' = [out EXCEPT !.info = @ \cup {"monthly_charts"}]
            /\ df' = df
       ELSE /\ out' = [out EXCEPT !.saldo_m = monthly_charts(df).saldo_m]
            /\ df' = monthly_charts(df).df
    /\ pc' = "category_chart"
    /\ UNCHANGED <<records, records0, returned, cell, amount, parsed>>

CategoryChart ==
    /\ pc = "category_chart"
    /\ IF "categoria" \in df.cols
       THEN IF "tipo" \in df.cols
            THEN /\ out' = [out EXCEPT !.despesas_cat =
                               groupby_sum(of_tipo(df.rows, T_despesa), "categoria")]
                 /\ pc' = "payment_chart"
            ELSE /\ out' = [out EXCEPT !.exc = "KeyError"]  \* df["tipo"]
                 /\ pc' = "raised"
       ELSE /\ out' = [out EXCEPT !.info = @ \cup {"category_chart"}]
            /\ pc' = "payment_chart"
    /\ UNCHANGED <<records, records0, returned, cell, amount, parsed, df>>

PaymentChart ==
    /\ pc = "payment_chart"
    /\ IF "forma_pagamento" \in df.cols
       THEN out' = [out EXCEPT !.por_forma = groupby_sum(df.rows, "forma_pagamento")]
       ELSE out' = [out EXCEPT !.info = @ \cup {"payment_chart"}]
    /\ pc' = "top_people_chart"
    /\ UNCHANGED <<records, records0, returned, cell, amount, parsed, df>>

TopPeopleChart ==
    /\ pc = "top_people_chart"
    /\ IF "pessoa_final" \in df.cols
       THEN \E tb \in top_people(df) : out' = [out EXCEPT !.top = tb]
       ELSE out' = [out EXCEPT !.info = @ \cup {"top_people_chart"}]
    /\ pc' = "done"
    /\ UNCHANGED <<records, records0, returned, cell, amount, parsed, df>>

NextAgg == KpiCards \/ MonthlyCharts \/ CategoryChart \/ PaymentChart \/ TopPeopleChart

SpecAgg == InitAgg /\ [][NextAgg]_vars

---------------------------------------------------------------------------
(* top_people_chart on ledgers with many counterparties (SpecTop) *)

PersonName(i) == <<"P">> \o PadLeft(NatToDigits(i), 2)

(* Ledgers of n counterparties P01..Pn, one income row each of amount 10*i, *)
(* in ascending or descending name order, followed by up to MaxExtra        *)
(* expense rows of 10 or 20 for the first MaxExtraPeople of them.           *)
WideRow(i, tp, a) ==
    [tipo |-> Str(tp), data |-> Date(2024, 1, 15), valor |-> Normalise(a, 0),
     pessoa_final |-> Str(PersonName(i))]

WideLedgers ==
    LET extras == {WideRow(i, T_despesa, a) : i \in 1..MaxExtraPeople, a \in {10, 20}}
        base(n, asc) == [j \in 1..n |->
                            IF asc THEN WideRow(j, T_receita, 10 * j)
                            ELSE WideRow(n + 1 - j, T_receita, 10 * (n + 1 - j))]
    IN  {Ledger({"valor", "data", "tipo", "pessoa_final"}, base(n, asc) \o ex) :
            n \in 0..MaxPeople, asc \in BOOLEAN,
            ex \in UNION {[1..x -> extras] : x \in 0..MaxExtra}}

InitTop ==
    /\ df \in WideLedgers
    /\ pc = "top_people_chart"
    /\ out = Idle
    /\ records = <<>>
    /\ records0 = <<>>
    /\ returned = <<>>
    /\ cell = NoCell
    /\ amount = 0
    /\ parsed = NaN

NextTop == TopPeopleChart

SpecTop == InitTop /\ [][NextTop]_vars

---------------------------------------------------------------------------
(* Properties of the aggregations (SpecAgg, SpecTop) *)

(* A number in hundredths *)
Hundredths(x) == x.m * Pow10(2 - x.e)

RECURSIVE TotalOver(_, _)
TotalOver(rows, S) ==
    IF S = {} THEN 0
    ELSE LET i == CHOOSE x \in S : TRUE
         IN  Hundredths(rows[i].v["valor"]) + TotalOver(rows, S \ {i})

(* s is the word, each letter in either case *)
SpelledAs(s, lower, upper) ==
    /\ Len(s) = Len(lower)
    /\ \A i \in 1..Len(s) : s[i] \in {lower[i], upper[i]}

IncomeRows(d) ==
    {i \in 1..Len(d.rows) :
        "tipo" \in d.cols /\ SpelledAs(d.rows[i].v["tipo"].s, T_receita, T_RECEITA)}

ExpenseRows(d) ==
    {i \in 1..Len(d.rows) :
        "tipo" \in d.cols /\ SpelledAs(d.rows[i].v["tipo"].s, T_despesa, T_DESPESA)}

MonthText(date) ==
    IF date.y = 2023 /\ date.m = 12 THEN <<"2", "0", "2", "3", "-", "1", "2">>
    ELSE IF date.y = 2024 /\ date.m = 1 THEN <<"2", "0", "2", "4", "-", "0", "1">>
    ELSE <<>>

InMonth(d, S, text) == {i \in S : MonthText(d.rows[i].v["data"]) = text}

After(step) ==
    CASE step = "kpi_cards" -> pc # "kpi_cards"
      [] step = "monthly_charts" -> pc \notin {"kpi_cards", "monthly_charts"}
      [] step = "category_chart" -> pc \in {"payment_chart", "top_people_chart", "done", "raised"}
      [] step = "top_people_chart" -> pc = "done"

(* C6: an aggregation whose column is absent is skipped with a report and   *)
(* nothing raises; the category breakdown needs both categoria and tipo.    *)
C6_AbsentColumnSkipped ==
    /\ out.exc = ""
    /\ pc # "raised"
    /\ (After("monthly_charts") /\ "tipo" \notin df.cols) => "monthly_charts" \in out.info
    /\ (After("category_chart") /\ ~({"categoria", "tipo"} \subseteq df.cols)) =>
           "category_chart" \in out.info
    /\ (After("top_people_chart") /\ "pessoa_final" \notin df.cols) =>
           "top_people_chart" \in out.info
    /\ (After("top_people_chart") /\ "forma_pagamento" \notin df.cols) =>
           "payment_chart" \in out.info

(* C7: income is the total of the rows whose entry type is "receita" in any *)
(* case, expense the same for "despesa", balance their difference; other    *)
(* rows count in neither, and without the column both totals are zero.      *)
C7_KpiTotals ==
    After("kpi_cards") =>
        /\ ~out.kpi.receitas.isna /\ ~out.kpi.despesas.isna /\ ~out.kpi.saldo.isna
        /\ Hundredths(out.kpi.receitas) = TotalOver(df.rows, IncomeRows(df))
        /\ Hundredths(out.kpi.despesas) = TotalOver(df.rows, ExpenseRows(df))
        /\ Hundredths(out.kpi.saldo) =
              TotalOver(df.rows, IncomeRows(df)) - TotalOver(df.rows, ExpenseRows(df))
        /\ "tipo" \notin df.cols => out.kpi.receitas = Zero /\ out.kpi.despesas = Zero

(* C7 witness: an income row in upper case and one in lower case, both in   *)
(* the income total.                                                        *)
C7_Witness ==
    /\ After("kpi_cards")
    /\ "tipo" \in df.cols
    /\ Len(df.rows) = 2
    /\ df.rows[1].v["tipo"].s = T_RECEITA
    /\ df.rows[2].v["tipo"].s = T_receita
    /\ Hundredths(out.kpi.receitas) =
          Hundredths(df.rows[1].v["valor"]) + Hundredths(df.rows[2].v["valor"])

(* C8: the merged monthly series has exactly one entry for every month with *)
(* an income row or an expense row, with that month's income total (0 if    *)
(* none), expense total (0 if none) and their difference.                   *)
C8_MonthlyMerge ==
    (After("monthly_charts") /\ "tipo" \in df.cols) =>
        LET sm == out.saldo_m
            inc == IncomeRows(df)
            exp == ExpenseRows(df)
        IN  /\ {sm[g].ano_mes.s : g \in 1..Len(sm)} =
                  {MonthText(df.rows[i].v["data"]) : i \in inc \cup exp}
            /\ \A g, h \in 1..Len(sm) : g # h => sm[g].ano_mes # sm[h].ano_mes
            /\ \A g \in 1..Len(sm) :
                  /\ ~sm[g].valor_rec.isna /\ ~sm[g].valor_des.isna /\ ~sm[g].saldo.isna
                  /\ Hundredths(sm[g].valor_rec) = TotalOver(df.rows, InMonth(df, inc, sm[g].ano_mes.s))
                  /\ Hundredths(sm[g].valor_des) = TotalOver(df.rows, InMonth(df, exp, sm[g].ano_mes.s))
                  /\ Hundredths(sm[g].saldo) =
                        Hundredths(sm[g].valor_rec) - Hundredths(sm[g].valor_des)

(* C8 witness: a month with income only and a month with expense only, both *)
(* in the series.                                                           *)
C8_Witness ==
    /\ After("monthly_charts")
    /\ "tipo" \in df.cols
    /\ \E g, h \in 1..Len(out.saldo_m) :
          /\ InMonth(df, ExpenseRows(df), out.saldo_m[g].ano_mes.s) = {}
          /\ out.saldo_m[g].valor_des = Zero
          /\ out.saldo_m[g].valor_rec # Zero
          /\ InMonth(df, IncomeRows(df), out.saldo_m[h].ano_mes.s) = {}
          /\ out.saldo_m[h].valor_rec = Zero
          /\ out.saldo_m[h].valor_des # Zero

People(d) == {d.rows[i].v["pessoa_final"] : i \in 1..Len(d.rows)}

RowsOf(d, k) == {i \in 1..Len(d.rows) : d.rows[i].v["pessoa_final"] = k}

FirstSeen(d, k) == CHOOSE i \in RowsOf(d, k) : \A j \in RowsOf(d, k) : i <= j

Kept == {out.top[g].key : g \in 1..Len(out.top)}

(* C9 amended: each group's amount is the total of all its rows, whatever   *)
(* their entry type; at most 15 groups, all of them when there are no more  *)
(* than 15; in descending order of amount; no group left out has a larger   *)
(* amount than a group kept.                                                *)
C9_TopByAmount ==
    (After("top_people_chart") /\ "pessoa_final" \in df.cols) =>
        LET tp == out.top
        IN  /\ Len(tp) <= 15
            /\ Len(tp) = IF Cardinality(People(df)) < 15 THEN Cardinality(People(df)) ELSE 15
            /\ Kept \subseteq People(df)
            /\ \A g, h \in 1..Len(tp) : g # h => tp[g].key # tp[h].key
            /\ \A g \in 1..Len(tp) :
                  Hundredths(tp[g].valor) = TotalOver(df.rows, RowsOf(df, tp[g].key))
            /\ \A g, h \in 1..Len(tp) :
                  g < h => Hundredths(tp[g].valor) >= Hundredths(tp[h].valor)
            /\ \A g \in 1..Len(tp) : \A k \in People(df) \ Kept :
                  TotalOver(df.rows, RowsOf(df, k)) <= Hundredths(tp[g].valor)

(* C9 as claimed: besides, groups with equal amounts are in order of first  *)
(* appearance in the ledger, and at the cut the earlier one is kept.        *)
C9_TiesByFirstAppearance ==
    (After("top_people_chart") /\ "pessoa_final" \in df.cols) =>
        LET tp == out.top
        IN  /\ C9_TopByAmount
            /\ \A g, h \in 1..Len(tp) :
                  (g < h /\ tp[g].valor = tp[h].valor) =>
                      FirstSeen(df, tp[g].key) < FirstSeen(df, tp[h].key)
            /\ \A g \in 1..Len(tp) : \A k \in People(df) \ Kept :
                  TotalOver(df.rows, RowsOf(df, k)) = Hundredths(tp[g].valor) =>
                      FirstSeen(df, tp[g].key) < FirstSeen(df, k)

(* C9 witness: more than 15 counterparties, cut to 15, one of them with an  *)
(* income row and an expense row, and two with equal amounts.               *)
C9_Witness ==
    /\ After("top_people_chart")
    /\ "pessoa_final" \in df.cols
    /\ Cardinality(People(df)) > 15
    /\ Len(out.top) = 15
    /\ \E k \in Kept : Cardinality({df.rows[i].v["tipo"] : i \in RowsOf(df, k)}) = 2
    /\ \E g, h \in 1..Len(out.top) : g # h /\ out.top[g].valor = out.top[h].valor

---------------------------------------------------------------------------
(* Properties of load_data (SpecLoad) *)

KeysOf(recs) == IF recs = <<>> THEN {} ELSE DOMAIN recs[1]

(* The column the normaliser reads a row's date from *)
DateKey(recs) == IF L_Data \in KeysOf(recs) THEN L_Data ELSE L_Timestamp

(* The date texts of the inputs, and the dates they denote *)
ValidDateText(c) == c.kind = "str" /\ c.s \in {T_Jan15, T_Feb03}

DateOf(c) ==
    IF c.s = T_Jan15 THEN [isna |-> FALSE, y |-> 2024, m |-> 1, d |-> 15]
    ELSE [isna |-> FALSE, y |-> 2024, m |-> 2, d |-> 3]

(* An amount cell that denotes a number: a numeric cell, or text made of    *)
(* digits, '.' and at most one ',' with at least one digit                  *)
AmountParses(c) ==
    \/ c.kind \in {"int", "float"}
    \/ /\ c.kind = "str"
       /\ \E i \in 1..Len(c.s) : IsDigit(c.s[i])
       /\ \A i \in 1..Len(c.s) : IsDigit(c.s[i]) \/ c.s[i] \in {".", ","}
       /\ Cardinality({i \in 1..Len(c.s) : c.s[i] = ","}) <= 1

NonBlank(c) == c.kind = "str" /\ \E i \in 1..Len(c.s) : ~IsSpace(c.s[i])

(* The raw rows (numbered from 1) with a parseable amount and a parseable date *)
CompleteRows(recs) ==
    {i \in 1..Len(recs) :
        AmountParses(recs[i][L_Valor]) /\ ValidDateText(recs[i][DateKey(recs)])}

(* C1: every row of a returned ledger has a parsed amount and a parsed date, *)
(* and the ledger holds exactly the raw rows whose amount and date both      *)
(* parse, once each and in order: no row is kept with a defaulted field.     *)
C1_LedgerRowsComplete ==
    \A k \in 1..Len(returned) :
        returned[k].kind = "ok" =>
            LET d == returned[k].df
            IN  /\ {"valor", "data"} \subseteq d.cols
                /\ \A j \in 1..Len(d.rows) :
                       ~d.rows[j].v["valor"].isna /\ ~d.rows[j].v["data"].isna
                /\ {d.rows[j].idx + 1 : j \in 1..Len(d.rows)} = CompleteRows(records0)
                /\ \A i, j \in 1..Len(d.rows) : i < j => d.rows[i].idx < d.rows[j].idx

(* C1 witness: of two raw rows, one with amount and date, one whose amount   *)
(* parses and whose date does not, only the first is in the ledger.          *)
C1_Witness ==
    /\ Len(returned) >= 1 /\ returned[1].kind = "ok"
    /\ Len(records0) = 2
    /\ CompleteRows(records0) = {1}
    /\ AmountParses(records0[2][L_Valor])
    /\ Len(returned[1].df.rows) = 1

(* C2: the resolved counterparty is the manual name when it is non-blank,    *)
(* else the list name; with no manual-name column and a list column, the     *)
(* resolution completes and yields the list name.                            *)
C2_CounterpartyResolved ==
    \A k \in 1..Len(returned) :
        LET keys == KeysOf(records0)
            d == returned[k].df
        IN  /\ (L_Lista \in keys /\ L_Texto \notin keys) =>
                  returned[k].exc # "AttributeError"
            /\ (returned[k].kind = "ok" /\ L_Lista \in keys) =>
                  /\ "pessoa_final" \in d.cols
                  /\ \A j \in 1..Len(d.rows) :
                        LET raw == records0[d.rows[j].idx + 1]
                        IN  d.rows[j].v["pessoa_final"] =
                               IF L_Texto \in keys /\ NonBlank(raw[L_Texto])
                               THEN raw[L_Texto] ELSE raw[L_Lista]

(* C2, the part the code does satisfy: with the manual-name column present   *)
C2_WithManualColumn ==
    \A k \in 1..Len(returned) :
        LET keys == KeysOf(records0)
            d == returned[k].df
        IN  (returned[k].kind = "ok" /\ L_Texto \in keys) =>
                  /\ "pessoa_final" \in d.cols
                  /\ \A j \in 1..Len(d.rows) :
                        LET raw == records0[d.rows[j].idx + 1]
                        IN  d.rows[j].v["pessoa_final"] =
                               IF NonBlank(raw[L_Texto]) \/ L_Lista \notin keys
                               THEN raw[L_Texto] ELSE raw[L_Lista]

(* C4 as claimed: a row whose date of entry does not parse and whose         *)
(* timestamp does gets the timestamp as its date and is kept.                *)
C4_PerRowFallback ==
    \A k \in 1..Len(returned) :
        returned[k].kind = "ok" =>
            \A i \in 1..Len(records0) :
                (/\ {L_Data, L_Timestamp} \subseteq KeysOf(records0)
                 /\ ~ValidDateText(records0[i][L_Data])
                 /\ ValidDateText(records0[i][L_Timestamp])
                 /\ AmountParses(records0[i][L_Valor])) =>
                    \E j \in 1..Len(returned[k].df.rows) :
                        /\ returned[k].df.rows[j].idx = i - 1
                        /\ returned[k].df.rows[j].v["data"] = DateOf(records0[i][L_Timestamp])

(* C4 amended: the date comes from the date-of-entry column whenever that    *)
(* column is present, from the timestamp column only when it is absent; a    *)
(* row whose value in the column read does not parse is dropped, whatever    *)
(* its timestamp.                                                            *)
C4_ColumnFallback ==
    \A k \in 1..Len(returned) :
        returned[k].kind = "ok" =>
            LET d == returned[k].df
                key == IF L_Data \in KeysOf(records0) THEN L_Data ELSE L_Timestamp
            IN  /\ \A j \in 1..Len(d.rows) :
                      /\ ValidDateText(records0[d.rows[j].idx + 1][key])
                      /\ d.rows[j].v["data"] = DateOf(records0[d.rows[j].idx + 1][key])
                /\ \A i \in 1..Len(records0) :
                      ~ValidDateText(records0[i][key]) =>
                          \A j \in 1..Len(d.rows) : d.rows[j].idx # i - 1

(* C4 witness: both columns present, a row with a parseable amount, an       *)
(* unparseable date of entry and a parseable timestamp, dropped.             *)
C4_Witness ==
    /\ Len(returned) >= 1 /\ returned[1].kind = "ok"
    /\ {L_Data, L_Timestamp} \subseteq KeysOf(records0)
    /\ \E i \in 1..Len(records0) :
          /\ ~ValidDateText(records0[i][L_Data])
          /\ ValidDateText(records0[i][L_Timestamp])
          /\ AmountParses(records0[i][L_Valor])
          /\ \A j \in 1..Len(returned[1].df.rows) : returned[1].df.rows[j].idx # i - 1

(* C5: load_data raises nothing, whichever expected labels are absent from   *)
(* the records' keys                                                         *)
C5_NoErrorOnMissingLabels ==
    \A k \in 1..Len(returned) : KeysOf(records0) # {} => returned[k].kind = "ok"

============================================================================
